---- MODULE Spec2Model ----
(***************************************************************************)
(* A model of the X-Feed-Reader acquisition and ingestion core:            *)
(*   - the DOM extraction helpers of src/src/scraper.py,                   *)
(*   - the acquisition loop XFeedScraper.scrape_feed,                      *)
(*   - the CLI store of src/src/database.py (add_tweets, cleanup),         *)
(*   - the web store and orchestrator of                                   *)
(*     src/web/services/pipeline_service.py,                               *)
(*   - the delivery of a briefing, src/web/services/delivery_service.py,   *)
(*   - the acquisition runs on browser profile directories as the worker,  *)
(*     the manual trigger and the CLI scheduler start them,                *)
(*   - the author resolution XFeedScraper._extract_author_info.            *)
(*                                                                         *)
(* Python strings that the code inspects character by character are        *)
(* sequences of one-character strings.  Python's None is None for an       *)
(* optional identifier, NoText for an optional text and NoCount for an     *)
(* optional count.                                                         *)
(***************************************************************************)
EXTENDS Integers, Sequences, FiniteSets, TLC

VARIABLES
  eng,          \* one call of XFeedScraper._extract_engagement: its input and result
  sc,           \* the locals of one call of XFeedScraper.scrape_feed
  front,        \* the caller of scrape_feed: the CLI pipeline or the web feed provider
  tweets_tbl,   \* table "tweets" of src/src/database.py: a sequence of rows
  scrape_runs,  \* table "scrape_runs" of src/src/database.py: a sequence of rows
  web_tweets,   \* table "web_tweets": a sequence of rows in insertion order
  web_scrape_runs, \* table "web_scrape_runs": a sequence of rows
  briefings,    \* table "briefings": a sequence of rows
  runs,         \* the executions of run_user_pipeline: locals and position of each
  ing,          \* the last direct call of an ingestion/retention function and its result
  now,          \* the value the next read of now_utc() is not below
  acq,          \* the acquisition runs against browser profile directories, by trigger
  auth,         \* one call of XFeedScraper._extract_author_info: its input and result
  sched         \* run_scheduler of the CLI: its loop thread, main thread and stop event

vars == <<eng, sc, front, tweets_tbl, scrape_runs, web_tweets, web_scrape_runs, briefings,
          runs, ing, now, acq, auth, sched>>

cliTables == <<tweets_tbl, scrape_runs>>
webTables == <<web_tweets, web_scrape_runs, briefings>>

None == "None"

\* None where the code holds an optional text (a sequence of characters).
NoText == <<"None">>

\* None where the code holds an optional count (counts are never negative).
NoCount == -1

\* Python truthiness of an optional string: None and "" are falsy.
Truthy(x) == x # None /\ x # ""



\* All sequences over S of length at most n.
RECURSIVE SeqsUpTo(_, _)
SeqsUpTo(S, n) ==
  IF n = 0 THEN {<<>>}
  ELSE LET shorter == SeqsUpTo(S, n - 1)
       IN  shorter \cup {Append(s, x) : s \in {t \in shorter : Len(t) = n - 1}, x \in S}

(***************************************************************************)
(* Engagement counts: XFeedScraper._extract_engagement                     *)
(***************************************************************************)
MaxTextLen == 4

Digits == {"0", "1", "2", "3", "4", "5", "6", "7", "8", "9"}

DigitValue(c) ==
  CASE c = "0" -> 0 [] c = "1" -> 1 [] c = "2" -> 2 [] c = "3" -> 3 [] c = "4" -> 4
    [] c = "5" -> 5 [] c = "6" -> 6 [] c = "7" -> 7 [] c = "8" -> 8 [] c = "9" -> 9

\* str.strip(): leading and trailing blanks removed.
RECURSIVE LStrip(_)
LStrip(t) == IF t # <<>> /\ Head(t) = " " THEN LStrip(Tail(t)) ELSE t

RECURSIVE RStrip(_)
RStrip(t) == IF t # <<>> /\ t[Len(t)] = " " THEN RStrip(SubSeq(t, 1, Len(t) - 1)) ELSE t

Strip(t) == RStrip(LStrip(t))

\* str.upper() on the characters of the model's alphabet.
UpperChar(c) == CASE c = "k" -> "K" [] c = "m" -> "M" [] OTHER -> c

Upper(t) == [i \in 1..Len(t) |-> UpperChar(t[i])]

EndsWith(t, c) == t # <<>> /\ t[Len(t)] = c

DropLast(t) == SubSeq(t, 1, Len(t) - 1)

\* str.replace(c, ""): every occurrence of the character removed.
RECURSIVE Remove(_, _)
Remove(t, c) ==
  IF t = <<>> THEN <<>>
  ELSE IF Head(t) = c THEN Remove(Tail(t), c)
  ELSE <<Head(t)>> \o Remove(Tail(t), c)

\* str.isdigit(): non-empty and digits only.
IsDigit(t) == t # <<>> /\ \A i \in 1..Len(t) : t[i] \in Digits

\* int() of a digit string.
RECURSIVE ToInt(_)
ToInt(t) == IF t = <<>> THEN 0 ELSE 10 * ToInt(DropLast(t)) + DigitValue(t[Len(t)])

\* re.findall(r"[\d,]+", label)[0]: the first maximal run of digits and commas,
\* <<>> when there is none.
RECURSIVE TakeRun(_)
TakeRun(t) ==
  IF t # <<>> /\ Head(t) \in Digits \cup {","} THEN <<Head(t)>> \o TakeRun(Tail(t)) ELSE <<>>

RECURSIVE FirstNumberRun(_)
FirstNumberRun(t) ==
  IF t = <<>> THEN <<>>
  ELSE IF Head(t) \in Digits \cup {","} THEN TakeRun(t)
  ELSE FirstNumberRun(Tail(t))

\* The span fallback of _extract_engagement (scraper.py 533-547): text is the
\* span's inner_text, None when it is empty.
ParseCompactCount(text) ==
  IF text = <<>> THEN NoCount
  ELSE LET up == Upper(Strip(text))
           multiplier == IF EndsWith(up, "K") THEN 1000
                         ELSE IF EndsWith(up, "M") THEN 1000000 ELSE 1
           body == IF EndsWith(up, "K") \/ EndsWith(up, "M") THEN DropLast(up) ELSE up
           cleaned == Remove(Remove(body, ","), ".")
       IN  IF IsDigit(cleaned) THEN ToInt(cleaned) * multiplier ELSE NoCount

\* _extract_engagement on a button: present is FALSE when query_selector finds no
\* button; aria_label and span are NoText (absent) or a text.
ExtractEngagement(button) ==
  IF ~button.present THEN NoCount
  ELSE LET numbers == IF button.aria_label = NoText THEN <<>>
                      ELSE FirstNumberRun(button.aria_label)
       IN  IF button.aria_label # NoText /\ button.aria_label # <<>> /\ numbers # <<>>
           THEN \* int(numbers[0].replace(",", "")): int("") raises ValueError, which the
                \* enclosing except turns into None
                IF Remove(numbers, ",") = <<>> THEN NoCount ELSE ToInt(Remove(numbers, ","))
           ELSE IF button.span = NoText THEN NoCount
           ELSE ParseCompactCount(button.span)

SpanAlphabet == {"1", "2", "3", "4", ".", "K", "M", "k", " ", "x"}

\* aria-labels with a number in them, and aria-labels without one.
NumberLabels == {<<"7", " ", "L">>, <<"1", ",", "2", " ", "L">>, <<",">>}

PlainLabels == {NoText, <<>>, <<"L">>}

NoButton == [present |-> FALSE, aria_label |-> NoText, span |-> NoText]

\* The buttons with a span text of at most n characters.
ButtonsUpTo(n) ==
  {NoButton}
  \cup [present : {TRUE}, aria_label : NumberLabels, span : {NoText, <<"9">>}]
  \cup [present : {TRUE}, aria_label : PlainLabels, span : {NoText} \cup SeqsUpTo(SpanAlphabet, n)]

EngInit == eng \in [button : ButtonsUpTo(MaxTextLen), pc : {"call"}, result : {NoCount}]

EngIdle == [button |-> NoButton, pc |-> "idle", result |-> NoCount]

\* One call of _extract_engagement on the drawn button.
ExtractEngagementCall ==
  /\ eng.pc = "call"
  /\ eng' = [eng EXCEPT !.pc = "done", !.result = ExtractEngagement(eng.button)]
  /\ UNCHANGED <<acq, auth, sched, sc, front, cliTables, webTables, runs, ing, now>>

(***************************************************************************)
(* Articles and XFeedScraper._parse_tweet                                  *)
(***************************************************************************)
TweetIds == {"1", "2", "3", "4"}

IdOrder == <<"1", "2", "3", "4">>

\* An href is a sequence of path segments; NoHref is a missing href attribute.
NoHref == <<"None">>

\* re.search(r"/status/(\d+)", href).group(1), None when there is no match: the
\* first segment "status" that is followed by a segment of digits.
RECURSIVE StatusId(_)
StatusId(href) ==
  IF href = NoHref \/ Len(href) < 2 THEN None
  ELSE IF href[1] = "status" /\ href[2] \in TweetIds THEN href[2]
  ELSE StatusId(Tail(href))

\* _extract_tweet_id (scraper.py 474-505).  article.status_links are the hrefs of
\* the a[href*='/status/'] links, article.time_href the href of the link around
\* the time element (NoHref when there is none); article.raises names the DOM
\* call that raises, here the first query.
RECURSIVE FirstStatusId(_)
FirstStatusId(links) ==
  IF links = <<>> THEN None
  ELSE IF StatusId(Head(links)) # None THEN StatusId(Head(links))
  ELSE FirstStatusId(Tail(links))

ExtractTweetId(article) ==
  IF article.raises = "id" THEN None
  ELSE IF FirstStatusId(article.status_links) # None THEN FirstStatusId(article.status_links)
  ELSE StatusId(article.time_href)

\* The sub-extractions of _parse_tweet that follow the id, in the code's order
\* (scraper.py 361-391).
SubExtractions == <<"retweet", "author", "content", "reply", "timestamp", "engagement", "media">>

\* Those of them that _parse_tweet runs outside a try of their own: a DOM call
\* that raises there is caught by _parse_tweet's except (scraper.py 395-397).
Unguarded == {"retweet", "content", "timestamp"}

NoTweet == [id |-> None, likes |-> NoCount]

ParseTweetRunWithoutIdCheck(article) ==
  [tweet |-> [id |-> ExtractTweetId(article), likes |-> ExtractEngagement(article.like)],
   steps |-> <<"id">> \o SubExtractions, raised |-> FALSE]

ExceptNothing(step) == FALSE

\* `except Exception` of _parse_tweet (scraper.py 395-397): whatever an
\* extraction raises is caught there.
ExceptException(step) == TRUE

\* _parse_tweet's pass over the article: steps is the sequence of extractions it
\* attempted, tweet the dictionary it returns, NoTweet standing for None, and
\* raised whether an exception leaves _parse_tweet.
ParseTweetRun(article) ==
  LET id == ExtractTweetId(article)
  IN  IF ~Truthy(id) THEN [tweet |-> NoTweet, steps |-> <<"id">>, raised |-> FALSE]
      ELSE IF article.raises \in Unguarded
      THEN [tweet |-> NoTweet,
            steps |-> <<"id">> \o SubSeq(SubExtractions, 1,
                        CHOOSE i \in 1..Len(SubExtractions) : SubExtractions[i] = article.raises),
            raised |-> ~ExceptException(article.raises)]
      ELSE [tweet |-> [id |-> id,
                       likes |-> IF article.raises = "engagement" THEN NoCount
                                 ELSE ExtractEngagement(article.like)],
            steps |-> <<"id">> \o SubExtractions, raised |-> FALSE]

ParseTweet(article) == ParseTweetRun(article).tweet

PlainArticle(id) ==
  [status_links |-> << <<"user", "status", id>> >>, time_href |-> NoHref,
   raises |-> "none", like |-> NoButton]

\* The articles a pass of the feed may render.
FeedArticles ==
  {PlainArticle(id) : id \in TweetIds} \cup
  { \* no permalink at all
    [status_links |-> <<>>, time_href |-> NoHref, raises |-> "none", like |-> NoButton],
    \* links that hold "/status/" but no digits after it
    [status_links |-> << NoHref, <<"i", "status", "photo">> >>, time_href |-> <<"i", "lists">>,
     raises |-> "none", like |-> NoButton],
    \* the id only through the link around the time element
    [status_links |-> <<>>, time_href |-> <<"user", "status", "1">>, raises |-> "none",
     like |-> NoButton],
    \* the id resolves, a later unguarded query raises
    [status_links |-> << <<"user", "status", "3">> >>, time_href |-> NoHref,
     raises |-> "content", like |-> NoButton],
    \* the id resolves, the like button's query raises inside _extract_engagement
    [status_links |-> << <<"user", "status", "2">> >>, time_href |-> NoHref,
     raises |-> "engagement", like |-> NoButton],
    \* the permalink query raises inside _extract_tweet_id
    [status_links |-> << <<"user", "status", "4">> >>, time_href |-> NoHref,
     raises |-> "id", like |-> NoButton] }

(***************************************************************************)
(* The stores: src/src/database.py (CLI) and web/models/tweet.py with      *)
(* _store_tweets_batch of web/services/pipeline_service.py (web)           *)
(***************************************************************************)
Users == {"u1", "u2"}

\* A clock read: now_utc() never runs backwards and may return the same value
\* twice (the resolution of the system clock).
MaxClock == 3

ClockReads(n) == {ts \in [1..n -> now..MaxClock] : \A i \in 1..n : \A j \in 1..n : i <= j => ts[i] <= ts[j]}

LastRead(ts) == IF Len(ts) = 0 THEN now ELSE ts[Len(ts)]

\* Database.tweet_exists (database.py 194-209): the CLI's known-item oracle.
TweetExists(tbl, tweet_id) == \E i \in 1..Len(tbl) : tbl[i].id = tweet_id

\* Database.add_tweets (database.py 141-192).  times[i] is now_utc() as read for
\* batch[i].  The callers hand over batches whose ids are distinct (CliBatches,
\* the result of scrape_feed), so session.get is only ever asked for ids that
\* earlier calls stored or that nobody stored.
RECURSIVE AddTweetsFrom(_, _, _, _, _)
AddTweetsFrom(tbl, batch, times, i, new_count) ==
  IF i > Len(batch) THEN [tbl |-> tbl, new_count |-> new_count]
  ELSE LET tweet_id == batch[i].id
       IN  IF ~Truthy(tweet_id) THEN AddTweetsFrom(tbl, batch, times, i + 1, new_count)
           ELSE IF TweetExists(tbl, tweet_id) THEN AddTweetsFrom(tbl, batch, times, i + 1, new_count)
           ELSE AddTweetsFrom(Append(tbl, [id |-> tweet_id, scraped_at |-> times[i]]),
                              batch, times, i + 1, new_count + 1)

AddTweets(tbl, batch, times) == AddTweetsFrom(tbl, batch, times, 1, 0)

\* ORDER BY scraped_at DESC OFFSET keep_count - 1 LIMIT 1 (database.py 298-304):
\* the scraped_at of the keep_count-th most recent row.
CutoffTweet(tbl, keep_count) ==
  CHOOSE v \in {tbl[i].scraped_at : i \in 1..Len(tbl)} :
    /\ Cardinality({i \in 1..Len(tbl) : tbl[i].scraped_at > v}) < keep_count
    /\ Cardinality({i \in 1..Len(tbl) : tbl[i].scraped_at >= v}) >= keep_count

\* The filter of the DELETE of cleanup_old_tweets (database.py 312).
OlderThan(row, cutoff) == row.scraped_at < cutoff

\* The rows the DELETE leaves (database.py 310-314).
RECURSIVE RowsNotOlder(_, _)
RowsNotOlder(tbl, cutoff) ==
  IF tbl = <<>> THEN <<>>
  ELSE IF OlderThan(Head(tbl), cutoff) THEN RowsNotOlder(Tail(tbl), cutoff)
  ELSE <<Head(tbl)>> \o RowsNotOlder(Tail(tbl), cutoff)

\* Database.cleanup_old_tweets (database.py 278-322).
CleanupOldTweets(tbl, keep_count) ==
  LET total == Len(tbl)
  IN  IF total <= keep_count THEN [tbl |-> tbl, deleted |-> 0]
      ELSE LET kept == RowsNotOlder(tbl, CutoffTweet(tbl, keep_count))
           IN  [tbl |-> kept, deleted |-> total - Len(kept)]

\* The ids _store_tweets_batch collects from the raw data (pipeline_service.py 162).
RECURSIVE BatchIds(_)
BatchIds(raw_tweets) ==
  IF raw_tweets = <<>> THEN {}
  ELSE (IF Truthy(Head(raw_tweets).id) THEN {Head(raw_tweets).id} ELSE {}) \cup BatchIds(Tail(raw_tweets))

ExistingIdsOfAnyUser(tbl, user_id, raw_tweets) ==
  {tbl[i].tweet_id : i \in {j \in 1..Len(tbl) : tbl[j].tweet_id \in BatchIds(raw_tweets)}}

\* The batched existence query (pipeline_service.py 167-173).
ExistingIds(tbl, user_id, raw_tweets) ==
  {tbl[i].tweet_id : i \in {j \in 1..Len(tbl) :
      tbl[j].user_id = user_id /\ tbl[j].tweet_id \in BatchIds(raw_tweets)}}

\* The insert loop (pipeline_service.py 177-199): the rows db.add is called with,
\* in batch order.  existing_ids is the set read by the existence query and is
\* not updated inside the loop.
RECURSIVE PendingRows(_, _, _)
PendingRows(user_id, raw_tweets, existing_ids) ==
  IF raw_tweets = <<>> THEN <<>>
  ELSE LET tweet_id == Head(raw_tweets).id
       IN  IF ~Truthy(tweet_id) \/ tweet_id \in existing_ids
           THEN PendingRows(user_id, Tail(raw_tweets), existing_ids)
           ELSE <<[tweet_id |-> tweet_id, user_id |-> user_id]>>
                  \o PendingRows(user_id, Tail(raw_tweets), existing_ids)

NoUniqueConstraint(tbl, row) == FALSE

\* UniqueConstraint("tweet_id", "user_id") of web/models/tweet.py 41-43: whether
\* inserting row into tbl breaks it.
ViolatesUnique(tbl, row) ==
  \E i \in 1..Len(tbl) : tbl[i].tweet_id = row.tweet_id /\ tbl[i].user_id = row.user_id

\* db.commit() of the pending rows (pipeline_service.py 201-202): the INSERTs of
\* one transaction.  scraped_at is the column default now_utc, read per row
\* (times).  A row that breaks the unique constraint makes the commit raise
\* IntegrityError; the transaction then stores nothing.
RECURSIVE InsertRows(_, _, _, _)
InsertRows(tbl, pending, times, i) ==
  IF i > Len(pending) THEN [ok |-> TRUE, tbl |-> tbl]
  ELSE IF ViolatesUnique(tbl, pending[i]) THEN [ok |-> FALSE, tbl |-> tbl]
  ELSE InsertRows(Append(tbl, [tweet_id |-> pending[i].tweet_id, user_id |-> pending[i].user_id,
                               scraped_at |-> times[i]]),
                  pending, times, i + 1)

CommitRowsKept(tbl, pending, times) == InsertRows(tbl, pending, times, 1)

\* The commit that raised is rolled back as a whole (pipeline_service.py 201-202,
\* 145): the table is the one before the transaction.
CommitRows(tbl, pending, times) ==
  LET r == InsertRows(tbl, pending, times, 1)
  IN  IF r.ok THEN r ELSE [ok |-> FALSE, tbl |-> tbl]

\* _store_tweets_batch as one uninterrupted call (pipeline_service.py 152-204):
\* raised is TRUE when the commit raised, new_count is the value returned
\* otherwise.
StoreTweetsBatch(tbl, user_id, raw_tweets, times) ==
  IF BatchIds(raw_tweets) = {} THEN [tbl |-> tbl, new_count |-> 0, raised |-> FALSE]
  ELSE LET pending == PendingRows(user_id, raw_tweets, ExistingIds(tbl, user_id, raw_tweets))
           new_count == Len(pending)
       IN  IF new_count = 0 THEN [tbl |-> tbl, new_count |-> 0, raised |-> FALSE]
           ELSE LET c == CommitRows(tbl, pending, times)
                IN  [tbl |-> c.tbl, new_count |-> new_count, raised |-> ~c.ok]

(***************************************************************************)
(* The acquisition loop: XFeedScraper.scrape_feed (scraper.py 206-287)     *)
(***************************************************************************)
MAX_CONSECUTIVE_KNOWN == 3
SCROLL_MULTIPLIER == 2

\* Bounds of the acquisition model: the largest max_tweets a caller passes and
\* the most articles one query returns.
MaxTweets == 2
MaxArticles == 3

ScIdle ==
  [pc |-> "idle", max_tweets |-> 0, stop_on_known |-> FALSE, tweets |-> <<>>, seen_ids |-> {},
   consecutive_known |-> 0, scroll_count |-> 0, pass_len |-> 0, idx |-> 0,
   article |-> PlainArticle("1"), parsed |-> NoTweet, steps |-> <<>>, appended |-> FALSE,
   productive |-> TRUE, reason |-> "", result |-> <<>>]

\* The locals at scraper.py 229-232, before the first navigation.
ScStart(max_tweets, stop_on_known) ==
  [ScIdle EXCEPT !.pc = "navigate", !.max_tweets = max_tweets, !.stop_on_known = stop_on_known]

max_scrolls == sc.max_tweets * SCROLL_MULTIPLIER

\* known_checker(tweet_id): the CLI passes db.tweet_exists (main.py 146), the web
\* provider passes no checker (playwright_scraper.py 70).
KnownChecker(tweet_id) ==
  IF front.kind = "cli" THEN TweetExists(tweets_tbl, tweet_id) ELSE FALSE

ThresholdPassed(consecutive_known) == consecutive_known > MAX_CONSECUTIVE_KNOWN

\* scraper.py 266
ThresholdReached(consecutive_known) == consecutive_known >= MAX_CONSECUTIVE_KNOWN

CapPassed(s) == Len(s.tweets) > s.max_tweets

\* scraper.py 256: the cap checked before each article of the pass.
CapReached(s) == Len(s.tweets) >= s.max_tweets

ScReturnNothing(s, reason) ==
  [s EXCEPT !.pc = "returned", !.reason = reason, !.result = <<>>, !.tweets = <<>>,
            !.seen_ids = {}, !.article = ScIdle.article, !.parsed = NoTweet, !.steps = <<>>,
            !.appended = FALSE]

\* return tweets (scraper.py 268, 287): the list is handed to the caller, the
\* working locals of the loop are gone.
ScReturn(s, reason) ==
  [s EXCEPT !.pc = "returned", !.reason = reason, !.result = s.tweets, !.tweets = <<>>,
            !.seen_ids = {}, !.article = ScIdle.article, !.parsed = NoTweet, !.steps = <<>>,
            !.appended = FALSE]

NeverSeen(seen_ids, id) == FALSE

\* tweet["id"] not in seen_ids, negated (scraper.py 260).
AlreadySeen(seen_ids, id) == id \in seen_ids

KeepCount(consecutive_known) == consecutive_known

\* consecutive_known = 0 in the branch that appends (scraper.py 270).
NewRecordCount(consecutive_known) == 0

\* The body of the for loop for one article (scraper.py 259-272).  An exception
\* that left _parse_tweet would end the loop at 282-285.
ProcessArticle(s, article, known) ==
  LET tweet == ParseTweet(article)
      s1 == [s EXCEPT !.idx = s.idx + 1, !.article = article, !.parsed = tweet,
                      !.steps = ParseTweetRun(article).steps]
  IN  IF ParseTweetRun(article).raised
      THEN [ScReturn(s1, "parse_error") EXCEPT !.article = article]
      ELSE IF tweet # NoTweet /\ Truthy(tweet.id) /\ ~AlreadySeen(s.seen_ids, tweet.id)
      THEN LET s2 == [s1 EXCEPT !.seen_ids = s.seen_ids \cup {tweet.id}]
           IN  IF s.stop_on_known /\ known
               THEN LET s3 == [s2 EXCEPT !.consecutive_known = s.consecutive_known + 1]
                    IN  IF ThresholdReached(s3.consecutive_known) THEN ScReturn(s3, "known")
                        ELSE s3
               ELSE [s2 EXCEPT !.consecutive_known = NewRecordCount(s.consecutive_known),
                               !.tweets = Append(s.tweets, tweet),
                               !.appended = TRUE]
      ELSE s1

notSc == <<eng, acq, auth, sched, front, cliTables, webTables, runs, ing, now>>

\* page.goto and the feed-view selection (scraper.py 235-246): an exception
\* there is caught at 282-285 and the empty list returned.
ScNavigate ==
  /\ sc.pc = "navigate"
  /\ \/ sc' = [sc EXCEPT !.pc = "while"]
     \/ sc' = ScReturn(sc, "error")
  /\ UNCHANGED notSc

\* The while condition and the query of the rendered articles (scraper.py
\* 248-253).  A failed query gives the empty list.
ScWhile ==
  /\ sc.pc = "while"
  /\ IF Len(sc.tweets) < sc.max_tweets /\ sc.scroll_count < max_scrolls
     THEN \E n \in 0..MaxArticles :
            sc' = [sc EXCEPT !.pc = "for", !.pass_len = n, !.idx = 0, !.appended = FALSE]
     ELSE sc' = ScReturn(sc, "loop_end")
  /\ UNCHANGED notSc

\* One iteration of the for loop (scraper.py 255-272).
ScArticle ==
  /\ sc.pc = "for"
  /\ sc.idx < sc.pass_len
  /\ ~CapReached(sc)
  /\ \E article \in FeedArticles :
       sc' = ProcessArticle(sc, article,
                            Truthy(ParseTweet(article).id) /\ KnownChecker(ParseTweet(article).id))
  /\ UNCHANGED notSc

SameScrollCount(scroll_count) == scroll_count

\* scroll_count += 1 (scraper.py 275).
NextScrollCount(scroll_count) == scroll_count + 1

\* The end of the for loop, then the scroll step (scraper.py 274-278).  An
\* exception of the page is caught at 282-285 and the list returned.
ScScroll ==
  /\ sc.pc = "for"
  /\ sc.idx = sc.pass_len \/ CapReached(sc)
  /\ \/ sc' = [sc EXCEPT !.pc = "while", !.scroll_count = NextScrollCount(sc.scroll_count),
                         !.productive = sc.productive /\ sc.appended]
     \/ sc' = ScReturn(sc, "error")
  /\ UNCHANGED notSc

(***************************************************************************)
(* The callers of scrape_feed, one at a time: the CLI pipeline             *)
(* (src/src/main.py 136-171) and the web feed providers followed by        *)
(* _store_tweets_batch                                                     *)
(***************************************************************************)
KEEP_COUNT == 100

MaxBatch == 2

\* What the live API may hand over as tweet["id"] (twitter_api.py 147).
ApiIds == {"1", "2", None, ""}

ApiTweets == {[id |-> i, likes |-> NoCount] : i \in ApiIds}

ApiBatches == SeqsUpTo(ApiTweets, MaxBatch)

FrontIdle(kind) == [kind |-> kind, pc |-> "idle", batch |-> <<>>, new_count |-> 0,
                    raised |-> FALSE]

RunIds == {"r1", "r2"}

\* The locals of one execution of run_user_pipeline (pipeline_service.py 21-149):
\* pending are the rows db.add was called with, found is len(raw_tweets), raised
\* names the step whose exception is being handled, summary what became of the
\* summarizer call, ids the valid ids of the batch that was fetched.
RunIdle ==
  [pc |-> "idle", user_id |-> "u1", raw_tweets |-> <<>>, pending |-> <<>>, found |-> 0,
   new_count |-> 0, raised |-> "none", summary |-> "none",
            stages |-> <<>>, email |-> "none", telegram |-> "none", delivery |-> "none",
            ids |-> {}]

\* The record of the last direct call of a store operation: its arguments, what
\* it returned or that it raised, the CLI table and the tenant's row count as
\* they were before it, and whether it repeats the call before it.
IngIdle == [op |-> "none", owner |-> "u1", batch |-> <<>>, keep_count |-> 0, returned |-> 0,
            raised |-> FALSE, calls |-> 0, before |-> <<>>, rows_before |-> 0, repeat |-> FALSE]

\* The acquisition runs that can be in flight at once.
AcqIds == {"a1", "a2"}

\* PlaywrightFeedProvider.CLI_PROFILE; it is also the default browser_profile
\* of the CLI (src/src/config.py 55).
CLI_PROFILE == <<"data/browser-profile">>

\* One acquisition run: pc is the position of the code that drives the browser
\* (_scrape in its thread, or the CLI pipeline), task the state of the caller
\* that awaits it, browser the persistent context launched on the profile.
AcqRunIdle ==
  [pc |-> "idle", trigger |-> "job", user_id |-> "u1", profile |-> CLI_PROFILE,
   browser |-> "none", outcome |-> "none", task |-> "none"]

AcqIdle == [cli_profile_exists |-> FALSE, run |-> [a \in AcqIds |-> AcqRunIdle]]

\* No call of _extract_author_info yet.
AuthIdle ==
  [pc |-> "idle", user_links |-> <<>>, is_retweet |-> FALSE,
   author_handle |-> NoText, original_author |-> NoText]

\* run_scheduler not yet called: stop_event as created at scheduler.py 64.
SchedIdle ==
  [main |-> "idle", loop |-> "none", stop_event |-> FALSE, interval |-> 1, waited |-> 0,
   runs |-> 0, failed |-> 0, manual |-> 0]

\* The CLI log row (database.py 324-360).
CliRunRow(found, new, status) == [tweets_found |-> found, tweets_new |-> new, status |-> status]

\* main.py 140-147: the browser starts and scrape_feed is called with the store
\* as oracle; a browser that does not start is logged as a failed run (158-166).
CliStart ==
  /\ front.kind = "cli" /\ front.pc = "idle"
  /\ \/ /\ \E m \in 1..MaxTweets : sc' = ScStart(m, TRUE)
        /\ front' = [front EXCEPT !.pc = "scraping"]
        /\ UNCHANGED scrape_runs
     \/ /\ scrape_runs' = Append(scrape_runs, CliRunRow(0, 0, "failed"))
        /\ front' = [front EXCEPT !.pc = "done", !.raised = TRUE]
        /\ UNCHANGED sc
  /\ UNCHANGED <<eng, acq, auth, sched, tweets_tbl, webTables, runs, ing, now>>

\* main.py 148-157: add_tweets, cleanup_old_tweets(keep_count=100) and the log
\* row of the run; 158-166 when cleanup_old_tweets raises.
CliStore ==
  /\ front.kind = "cli" /\ front.pc = "scraping" /\ sc.pc = "returned"
  /\ LET tweets == sc.result
         added == AddTweets(tweets_tbl, tweets, [i \in 1..Len(tweets) |-> now])
         cleaned == CleanupOldTweets(added.tbl, KEEP_COUNT)
     IN  \/ /\ tweets_tbl' = cleaned.tbl
            /\ scrape_runs' = Append(scrape_runs, CliRunRow(Len(tweets), added.new_count, "completed"))
            /\ front' = [front EXCEPT !.pc = "done",
                                      !.batch = tweets, !.new_count = added.new_count,
                                      !.raised = FALSE]
         \/ /\ tweets_tbl' = added.tbl
            /\ scrape_runs' = Append(scrape_runs, CliRunRow(0, 0, "failed"))
            /\ front' = [front EXCEPT !.pc = "done",
                                      !.batch = tweets, !.new_count = added.new_count,
                                      !.raised = TRUE]
  /\ UNCHANGED <<eng, acq, auth, sched, sc, webTables, runs, ing, now>>

\* PlaywrightFeedProvider.fetch_feed (playwright_scraper.py 49-71): the session
\* check, then scrape_feed without oracle; a login redirect raises
\* SessionExpiredError and nothing is fetched.
WebFetchScraper ==
  /\ front.kind = "web" /\ front.pc = "idle"
  /\ \/ /\ \E m \in 1..MaxTweets : sc' = ScStart(m, FALSE)
        /\ front' = [front EXCEPT !.pc = "scraping"]
     \/ /\ front' = [front EXCEPT !.pc = "done", !.batch = <<>>, !.new_count = 0,
                                  !.raised = TRUE]
        /\ UNCHANGED sc
  /\ UNCHANGED <<eng, acq, auth, sched, cliTables, webTables, runs, ing, now>>

\* _store_tweets_batch on the batch the scraper returned (pipeline_service.py 68).
WebStoreScraped ==
  /\ front.kind = "web" /\ front.pc = "scraping" /\ sc.pc = "returned"
  /\ LET r == StoreTweetsBatch(web_tweets, "u1", sc.result, [i \in 1..Len(sc.result) |-> now])
     IN  /\ web_tweets' = r.tbl
         /\ front' = [front EXCEPT !.pc = "done",
                                   !.batch = sc.result, !.new_count = r.new_count,
                                   !.raised = r.raised]
  /\ UNCHANGED <<eng, acq, auth, sched, sc, cliTables, web_scrape_runs, briefings, runs, ing, now>>

\* TwitterAPIProvider.fetch_feed (twitter_api.py 67-108) followed by
\* _store_tweets_batch: the batch is what the API returned.
WebStoreApi ==
  /\ front.kind = "web" /\ front.pc = "idle"
  /\ \E batch \in ApiBatches :
       LET r == StoreTweetsBatch(web_tweets, "u1", batch, [i \in 1..Len(batch) |-> now])
       IN  /\ web_tweets' = r.tbl
           /\ front' = [front EXCEPT !.pc = "done", !.batch = batch,
                                     !.new_count = r.new_count, !.raised = r.raised]
  /\ UNCHANGED <<eng, acq, auth, sched, sc, cliTables, web_scrape_runs, briefings, runs, ing, now>>

\* The tables as earlier runs can have left them: one row per stored id.  The
\* stored ids are a prefix of IdOrder.
IdsInOrder(S) == SubSeq(IdOrder, 1, Cardinality(S))

StoredIdSets == {{IdOrder[i] : i \in 1..n} : n \in 0..Len(IdOrder)}

CliTableOf(S) == [i \in 1..Cardinality(S) |-> [id |-> IdsInOrder(S)[i], scraped_at |-> 1]]

WebTableOf(S, user_id) ==
  [i \in 1..Cardinality(S) |-> [tweet_id |-> IdsInOrder(S)[i], user_id |-> user_id, scraped_at |-> 1]]

\* Either the CLI process with its store, or the web application with the store
\* of one tenant.
AcquireInit ==
  /\ eng = EngIdle
  /\ sc = ScIdle
  /\ \E S \in StoredIdSets :
       \/ front = FrontIdle("cli") /\ tweets_tbl = CliTableOf(S) /\ web_tweets = <<>>
       \/ /\ front = FrontIdle("web") /\ tweets_tbl = <<>> /\ web_tweets = WebTableOf(S, "u1")
          /\ S \subseteq ApiIds
  /\ scrape_runs = <<>>
  /\ web_scrape_runs = <<>> /\ briefings = <<>>
  /\ runs = [r \in RunIds |-> RunIdle]
  /\ ing = IngIdle
  /\ acq = AcqIdle /\ auth = AuthIdle /\ sched = SchedIdle
  /\ now = 1

AcquireNext ==
  \/ CliStart \/ CliStore \/ WebFetchScraper \/ WebStoreScraped \/ WebStoreApi
  \/ ScNavigate \/ ScWhile \/ ScArticle \/ ScScroll

SpecAcquire == AcquireInit /\ [][AcquireNext]_vars

\* scrape_feed runs in one thread and every call it makes on the page returns
\* or raises within its timeout (scraper.py 236-240, 278), so a step of the
\* loop that can be taken is taken.
SpecAcquireFair ==
  SpecAcquire /\ WF_vars(ScNavigate \/ ScWhile \/ ScArticle \/ ScScroll)

\* The engagement parser applied to every button of the bounded alphabet.
EngagementInit ==
  /\ EngInit
  /\ sc = ScIdle
  /\ front = FrontIdle("none")
  /\ tweets_tbl = <<>> /\ scrape_runs = <<>>
  /\ web_tweets = <<>> /\ web_scrape_runs = <<>> /\ briefings = <<>>
  /\ runs = [r \in RunIds |-> RunIdle]
  /\ ing = IngIdle
  /\ acq = AcqIdle /\ auth = AuthIdle /\ sched = SchedIdle
  /\ now = 1

EngagementNext == ExtractEngagementCall

SpecEngagement == EngagementInit /\ [][EngagementNext]_vars

(***************************************************************************)
(* The store operations called one after the other: Database.add_tweets    *)
(* and Database.cleanup_old_tweets of the CLI, _store_tweets_batch of the  *)
(* web application                                                         *)
(***************************************************************************)
MaxCalls == 3
MaxKeep == 2

IngestIds == {"1", "2", "3"}

\* The batches add_tweets is handed: records of the scraper, whose ids are
\* distinct (seen_ids, scraper.py 260-261).
CliBatches ==
  {b \in SeqsUpTo({[id |-> i, likes |-> NoCount] : i \in IngestIds}, MaxBatch) :
     \A i \in 1..Len(b) : \A j \in 1..Len(b) : i # j => b[i].id # b[j].id}

RowsOf(tbl, user_id) == Cardinality({i \in 1..Len(tbl) : tbl[i].user_id = user_id})

IsRepeat(op, owner, batch) == ing.op = op /\ ing.owner = owner /\ ing.batch = batch

notIng == <<eng, acq, auth, sched, sc, front, scrape_runs, web_scrape_runs, briefings, runs>>

\* Database.add_tweets (database.py 141-192)
AddTweetsCall ==
  /\ front.kind = "cli" /\ ing.calls < MaxCalls
  /\ \E batch \in CliBatches : \E times \in ClockReads(Len(batch)) :
       LET r == AddTweets(tweets_tbl, batch, times)
       IN  /\ tweets_tbl' = r.tbl
           /\ now' = LastRead(times)
           /\ ing' = [op |-> "add_tweets", owner |-> "u1", batch |-> batch, keep_count |-> 0,
                      returned |-> r.new_count, raised |-> FALSE,
                      before |-> tweets_tbl, rows_before |-> Len(tweets_tbl), calls |-> ing.calls + 1,
                      repeat |-> IsRepeat("add_tweets", "u1", batch)]
  /\ UNCHANGED <<notIng, web_tweets>>

\* Database.cleanup_old_tweets (database.py 278-322)
CleanupOldTweetsCall ==
  /\ front.kind = "cli" /\ ing.calls < MaxCalls
  /\ \E keep_count \in 1..MaxKeep :
       LET r == CleanupOldTweets(tweets_tbl, keep_count)
       IN  /\ tweets_tbl' = r.tbl
           /\ ing' = [op |-> "cleanup_old_tweets", owner |-> "u1", batch |-> <<>>,
                      keep_count |-> keep_count, returned |-> r.deleted, raised |-> FALSE, before |-> tweets_tbl,
                      rows_before |-> Len(tweets_tbl), calls |-> ing.calls + 1, repeat |-> FALSE]
  /\ UNCHANGED <<notIng, web_tweets, now>>

\* _store_tweets_batch (pipeline_service.py 152-204) for one tenant; when the
\* commit raises, the caller rolls the session back (pipeline_service.py 145).
\* The rows of one commit get the same clock read.
StoreTweetsBatchCall ==
  /\ front.kind = "web" /\ ing.calls < MaxCalls
  /\ \E user_id \in Users : \E batch \in ApiBatches : \E t \in now..MaxClock :
       LET times == [i \in 1..Len(batch) |-> t]
           r == StoreTweetsBatch(web_tweets, user_id, batch, times)
       IN  /\ web_tweets' = r.tbl
           /\ now' = IF r.raised \/ r.new_count = 0 THEN now ELSE times[r.new_count]
           /\ ing' = [op |-> "_store_tweets_batch", owner |-> user_id, batch |-> batch,
                      keep_count |-> 0, returned |-> IF r.raised THEN 0 ELSE r.new_count,
                      raised |-> r.raised, before |-> web_tweets,
                      rows_before |-> RowsOf(web_tweets, user_id), calls |-> ing.calls + 1,
                      repeat |-> IsRepeat("_store_tweets_batch", user_id, batch)]
  /\ UNCHANGED <<notIng, tweets_tbl>>

IngestInit ==
  /\ eng = EngIdle
  /\ sc = ScIdle
  /\ front \in {FrontIdle("cli"), FrontIdle("web")}
  /\ tweets_tbl = <<>> /\ scrape_runs = <<>>
  /\ web_tweets = <<>> /\ web_scrape_runs = <<>> /\ briefings = <<>>
  /\ runs = [r \in RunIds |-> RunIdle]
  /\ ing = IngIdle
  /\ acq = AcqIdle /\ auth = AuthIdle /\ sched = SchedIdle
  /\ now = 1

IngestNext == AddTweetsCall \/ CleanupOldTweetsCall \/ StoreTweetsBatchCall

SpecIngest == IngestInit /\ [][IngestNext]_vars

(***************************************************************************)
(* The web orchestrator: run_user_pipeline (pipeline_service.py 21-149),   *)
(* two executions at a time (the manual trigger of routers/api.py 132-140  *)
(* and the worker job of web/worker.py 14-21), each with its own session   *)
(***************************************************************************)
MaxHours == 2
MaxReason == 1

\* The ids a fetched batch may carry.
OrchIds == {"1", "2", None}

\* The non-empty batches a provider returns.
OrchBatches == SeqsUpTo({[id |-> i, likes |-> NoCount] : i \in OrchIds}, MaxBatch) \ {<<>>}

\* str(e) of a SummaryGenerationError, as a sequence of characters.
Reasons == {[i \in 1..n |-> "e"] : n \in 1..MaxReason}

\* _log_scrape_run (pipeline_service.py 207-226): the row added and committed.
\* run names the execution that wrote it; status is the string as a sequence of
\* its parts.
LogScrapeRun(tbl, r, user_id, tweets_found, tweets_new, status) ==
  Append(tbl, [run |-> r, user_id |-> user_id, tweets_found |-> tweets_found,
               tweets_new |-> tweets_new, status |-> status])

\* The query of the recent tweets (pipeline_service.py 76-82).
RecentTweets(tbl, user_id, cutoff) ==
  {i \in 1..Len(tbl) : tbl[i].user_id = user_id /\ tbl[i].scraped_at >= cutoff}

notRun == <<eng, acq, auth, sched, sc, front, cliTables, ing, now>>

NoTweetsStatus(e) == <<"no_tweets">>

\* f"error: {e}" for a SessionExpiredError (pipeline_service.py 55-56).
SessionExpiredStatus(e) == <<"error:", e>>

\* Settings and step 1 (pipeline_service.py 26-66).
PipelineFetch(r) ==
  /\ runs[r].pc = "idle"
  /\ \E user_id \in Users :
       \/ \* the settings query raises (27): outside the try, so to the caller
          /\ runs' = [runs EXCEPT ![r] = [@ EXCEPT !.pc = "raised", !.user_id = user_id,
                                                   !.raised = "settings"]]
          /\ UNCHANGED web_scrape_runs
       \/ \* no settings row: return None before the run has started
          /\ runs' = [runs EXCEPT ![r] = [@ EXCEPT !.pc = "no_settings", !.user_id = user_id]]
          /\ UNCHANGED web_scrape_runs
       \/ \* scraper with Playwright disabled
          /\ web_scrape_runs' = LogScrapeRun(web_scrape_runs, r, user_id, 0, 0,
                                             <<"error:", "playwright_disabled">>)
          /\ runs' = [runs EXCEPT ![r] = [@ EXCEPT !.pc = "done", !.user_id = user_id]]
       \/ \* SessionExpiredError: logged at 58, then raised again
          /\ web_scrape_runs' = LogScrapeRun(web_scrape_runs, r, user_id, 0, 0,
                                             SessionExpiredStatus("session"))
          /\ runs' = [runs EXCEPT ![r] = [@ EXCEPT !.pc = "except", !.user_id = user_id,
                                                   !.raised = "session",
                                                   !.stages = <<"fetch">>]]
       \/ \* the provider raises anything else
          /\ runs' = [runs EXCEPT ![r] = [@ EXCEPT !.pc = "except", !.user_id = user_id,
                                                   !.raised = "fetch", !.stages = <<"fetch">>]]
          /\ UNCHANGED web_scrape_runs
       \/ \* nothing fetched, or an unknown feed source
          /\ web_scrape_runs' = LogScrapeRun(web_scrape_runs, r, user_id, 0, 0, <<"no_tweets">>)
          /\ runs' = [runs EXCEPT ![r] = [@ EXCEPT !.pc = "done", !.user_id = user_id,
                                                   !.stages = <<"fetch">>]]
       \/ \* a batch
          /\ \E batch \in OrchBatches :
               runs' = [runs EXCEPT ![r] = [@ EXCEPT !.pc = "store", !.user_id = user_id,
                                                    !.raw_tweets = batch, !.found = Len(batch),
                                                    !.ids = BatchIds(batch),
                                                    !.stages = <<"fetch">>]]
          /\ UNCHANGED web_scrape_runs
  /\ UNCHANGED <<notRun, web_tweets, briefings>>

FetchNotAwaited(run) == run.pc \in {"idle", "store"}

\* raw_tweets = await provider.fetch_feed(...) (pipeline_service.py 40, 54): the
\* steps after it run when the fetch has returned a batch.
FetchAwaited(run) == run.pc = "store"

\* _store_tweets_batch up to the commit (pipeline_service.py 161-199): the
\* existence query and the loop of db.add.
PipelineSelect(r) ==
  /\ FetchAwaited(runs[r])
  /\ LET run == runs[r]
         pending == IF BatchIds(run.raw_tweets) = {} THEN <<>>
                    ELSE PendingRows(run.user_id, run.raw_tweets,
                                     ExistingIds(web_tweets, run.user_id, run.raw_tweets))
     IN  runs' = [runs EXCEPT ![r] = [@ EXCEPT !.pc = IF pending = <<>> THEN "log" ELSE "commit",
                                              !.pending = pending, !.new_count = Len(pending),
                                              !.raw_tweets = <<>>,
                                              !.stages = Append(@, "store")]]
  /\ UNCHANGED <<notRun, webTables>>

\* db.commit() of the added rows (pipeline_service.py 201-202).
PipelineCommit(r) ==
  /\ runs[r].pc = "commit"
  /\ LET run == runs[r]
         c == CommitRows(web_tweets, run.pending, [i \in 1..Len(run.pending) |-> now])
     IN  /\ web_tweets' = c.tbl
         /\ runs' = [runs EXCEPT ![r] = IF c.ok THEN [@ EXCEPT !.pc = "log"]
                                        ELSE [@ EXCEPT !.pc = "except", !.raised = "commit"]]
  /\ UNCHANGED <<notRun, web_scrape_runs, briefings>>

\* The log row of the stored batch (pipeline_service.py 70-72).
PipelineLogCompleted(r) ==
  /\ runs[r].pc = "log"
  /\ web_scrape_runs' = LogScrapeRun(web_scrape_runs, r, runs[r].user_id, runs[r].found,
                                     runs[r].new_count, <<"completed">>)
  /\ runs' = [runs EXCEPT ![r] = [@ EXCEPT !.pc = "summarize"]]
  /\ UNCHANGED <<notRun, web_tweets, briefings>>

\* Steps 3 and 4 (pipeline_service.py 74-118): the recent tweets, then
\* generate_summary.
PipelineSummarize(r) ==
  /\ runs[r].pc = "summarize"
  /\ \E summary_hours \in 1..MaxHours :
       IF RecentTweets(web_tweets, runs[r].user_id, now - summary_hours) = {}
       THEN /\ runs' = [runs EXCEPT ![r] = [@ EXCEPT !.pc = "done", !.summary = "skipped"]]
            /\ UNCHANGED web_scrape_runs
       ELSE \/ /\ runs' = [runs EXCEPT ![r] = [@ EXCEPT !.pc = "briefing", !.summary = "returned",
                                                        !.stages = Append(@, "summarize")]]
               /\ UNCHANGED web_scrape_runs
            \/ \E reason \in Reasons :
                 /\ web_scrape_runs' = LogScrapeRun(web_scrape_runs, r, runs[r].user_id,
                                                    runs[r].found, runs[r].new_count,
                                                    <<"summary_error:">> \o reason)
                 /\ runs' = [runs EXCEPT ![r] = [@ EXCEPT !.pc = "done", !.summary = "raised",
                                                          !.stages = Append(@, "summarize")]]
  /\ UNCHANGED <<notRun, web_tweets, briefings>>

\* The briefing row as it is inserted (web/models/briefing.py 12-26): nothing
\* delivered yet.
NewBriefing(r, user_id) ==
  [run |-> r, user_id |-> user_id, delivered_email |-> FALSE, delivered_telegram |-> FALSE,
   delivery_error |-> NoText]

\* Step 5 (pipeline_service.py 120-137): the briefing row and its commit; the
\* briefing is returned to the caller.
PipelineStoreBriefing(r) ==
  /\ runs[r].pc = "briefing"
  /\ \/ /\ briefings' = Append(briefings, NewBriefing(r, runs[r].user_id))
        /\ runs' = [runs EXCEPT ![r] = [@ EXCEPT !.pc = "returned",
                                                 !.stages = Append(@, "briefing")]]
     \/ /\ runs' = [runs EXCEPT ![r] = [@ EXCEPT !.pc = "except", !.raised = "briefing",
                                                 !.stages = Append(@, "briefing")]]
        /\ UNCHANGED briefings
  /\ UNCHANGED <<notRun, web_tweets, web_scrape_runs>>

ExceptNoChannelError(channel) == FALSE

\* `except Exception` around each channel (delivery_service.py 73-75, 94-96).
ExceptChannelError(channel) == TRUE

\* What a channel can do: it is not configured ("off"), its send returns True
\* ("ok") or False ("false"), or it raises ("raised").
ChannelOutcomes == {"off", "ok", "false", "raised"}

\* The entries a channel adds to the list errors (delivery_service.py 72, 75,
\* 93, 96).
ChannelErrors(channel, outcome) ==
  IF outcome = "false" THEN << channel \o " delivery failed" >>
  ELSE IF outcome = "raised" THEN << channel \o ":", "e" >>
  ELSE <<>>

\* "; ".join(errors) of the two channels' entries (delivery_service.py 98-99).
JoinErrors(email_errors, telegram_errors) ==
  IF email_errors # <<>> /\ telegram_errors # <<>>
  THEN email_errors \o <<"; ">> \o telegram_errors
  ELSE email_errors \o telegram_errors

\* deliver_briefing on a briefing row (delivery_service.py 28-101): the row as
\* the final commit writes it, and whether an exception leaves the function
\* before the commit.
DeliverBriefing(briefing, email, telegram) ==
  IF email = "raised" /\ ~ExceptChannelError("Email")
  THEN [briefing |-> briefing, raised |-> TRUE]
  ELSE IF telegram = "raised" /\ ~ExceptChannelError("Telegram")
  THEN [briefing |-> briefing, raised |-> TRUE]
  ELSE LET errors == JoinErrors(ChannelErrors("Email", email),
                                ChannelErrors("Telegram", telegram))
       IN  [briefing |-> [briefing EXCEPT
                            !.delivered_email = IF email = "ok" THEN TRUE ELSE @,
                            !.delivered_telegram = IF telegram = "ok" THEN TRUE ELSE @,
                            !.delivery_error = IF errors # <<>> THEN errors ELSE @],
            raised |-> FALSE]

\* `if briefing:` of the callers (worker.py 22, api.py 150).
BriefingReturned(run) == run.pc = "returned"

\* The caller delivers the briefing it got (worker.py 22-23, api.py 150-152):
\* deliver_briefing with its final commit (delivery_service.py 101), which can
\* raise.
PipelineDeliver(r) ==
  /\ BriefingReturned(runs[r])
  /\ \E email \in ChannelOutcomes, telegram \in ChannelOutcomes :
       LET i == CHOOSE j \in 1..Len(briefings) : briefings[j].run = r
           d == DeliverBriefing(briefings[i], email, telegram)
       IN  \/ /\ ~d.raised
              /\ briefings' = [briefings EXCEPT ![i] = d.briefing]
              /\ runs' = [runs EXCEPT ![r] = [@ EXCEPT !.pc = "done", !.email = email,
                                                       !.telegram = telegram,
                                                       !.delivery = "returned",
                                                       !.stages = Append(@, "deliver")]]
           \/ /\ UNCHANGED briefings
              /\ runs' = [runs EXCEPT ![r] = [@ EXCEPT !.pc = "done", !.email = email,
                                                       !.telegram = telegram,
                                                       !.delivery = IF d.raised THEN "raised"
                                                                    ELSE "commit_raised",
                                                       !.stages = Append(@, "deliver")]]
  /\ UNCHANGED <<notRun, web_tweets, web_scrape_runs>>

\* except Exception (pipeline_service.py 142-149): rollback, then the log row;
\* when the rollback or the log raises, that is logged to the logger only (147-148).
PipelineExcept(r) ==
  /\ runs[r].pc = "except"
  /\ \/ web_scrape_runs' = LogScrapeRun(web_scrape_runs, r, runs[r].user_id, 0, 0,
                                        <<"error:", runs[r].raised>>)
     \/ UNCHANGED web_scrape_runs
  /\ runs' = [runs EXCEPT ![r] = [@ EXCEPT !.pc = "done"]]
  /\ UNCHANGED <<notRun, web_tweets, briefings>>

Init ==
  /\ eng = EngIdle
  /\ sc = ScIdle
  /\ front = FrontIdle("web")
  /\ tweets_tbl = <<>> /\ scrape_runs = <<>>
  /\ \E S \in StoredIdSets : S \subseteq OrchIds /\ web_tweets = WebTableOf(S, "u1")
  /\ web_scrape_runs = <<>> /\ briefings = <<>>
  /\ runs = [r \in RunIds |-> RunIdle]
  /\ ing = IngIdle
  /\ acq = AcqIdle /\ auth = AuthIdle /\ sched = SchedIdle
  /\ now \in {1, MaxClock}

Next ==
  \E r \in RunIds :
    \/ PipelineFetch(r) \/ PipelineSelect(r) \/ PipelineCommit(r) \/ PipelineLogCompleted(r)
    \/ PipelineSummarize(r) \/ PipelineStoreBriefing(r) \/ PipelineExcept(r)

\* The executions of run_user_pipeline that the web application interleaves.
Spec == Init /\ [][Next]_vars

\* _store_tweets_batch (pipeline_service.py 152-204) called for any tenant on
\* the store as the calls before it left it, all within one clock value.
TenantStoreCall ==
  /\ \E user_id \in Users : \E batch \in OrchBatches :
       LET r == StoreTweetsBatch(web_tweets, user_id, batch, [i \in 1..Len(batch) |-> now])
       IN  /\ web_tweets' = r.tbl
           /\ ing' = [IngIdle EXCEPT !.op = "_store_tweets_batch", !.owner = user_id,
                                     !.batch = batch,
                                     !.returned = IF r.raised THEN 0 ELSE r.new_count,
                                     !.raised = r.raised, !.before = web_tweets,
                                     !.rows_before = RowsOf(web_tweets, user_id)]
  /\ UNCHANGED <<notIng, tweets_tbl, now>>

\* The web store shared by the tenants, empty at first.
TenantsInit == IngestInit /\ front = FrontIdle("web")

SpecTenants == TenantsInit /\ [][TenantStoreCall]_vars

\* One worker job or one manual trigger from start to end: run_user_pipeline,
\* then deliver_briefing when a briefing came back (worker.py 20-26, api.py
\* 138-152).
JobNext ==
  \/ PipelineFetch("r1") \/ PipelineSelect("r1") \/ PipelineCommit("r1")
  \/ PipelineLogCompleted("r1") \/ PipelineSummarize("r1") \/ PipelineStoreBriefing("r1")
  \/ PipelineExcept("r1") \/ PipelineDeliver("r1")

SpecJob == Init /\ [][JobNext]_vars

(***************************************************************************)
(* Browser profile directories and the acquisition runs that hold them:    *)
(* PlaywrightFeedProvider (playwright_scraper.py), the worker job          *)
(* (worker.py), the manual trigger (api.py), and the CLI scheduler thread  *)
(* with the tray's "Run Now" (src/src/scheduler.py).                       *)
(***************************************************************************)
\* The run records the model lets the runs write before no run starts anew.
MaxRunRows == 2

\* What starts an acquisition run: an ARQ job (worker.py 14-26), the manual
\* trigger (api.py 132-140), the CLI scheduler loop (scheduler.py 66-74) and
\* the tray's "Run Now" thread (scheduler.py 127-128).
Triggers == {"job", "manual", "scheduler", "tray"}
WebTriggers == {"job", "manual"}

\* PlaywrightFeedProvider._get_profile_path (playwright_scraper.py 26-37).
GetProfilePath(user_id, cli_profile_exists) ==
  IF cli_profile_exists THEN CLI_PROFILE ELSE <<"data/browser-profiles", user_id>>

notAcq == <<eng, auth, sched, sc, front, tweets_tbl, web_tweets, briefings, runs, ing, now>>

\* The scheduler loop is one thread that calls pipeline_func in sequence
\* (scheduler.py 66-74); nothing else orders the starts: ARQ runs up to
\* max_jobs jobs at once (worker.py 44), enqueue_job gets no job id
\* (scheduler_tasks.py 84), the manual trigger awaits run_user_pipeline in the
\* request (api.py 139), and "Run Now" starts a thread per click
\* (scheduler.py 127-128).
MayStart(trigger) ==
  trigger = "scheduler" =>
    \A b \in AcqIds : ~(acq.run[b].trigger = "scheduler" /\ acq.run[b].task = "awaiting")

\* fetch_feed up to asyncio.to_thread (playwright_scraper.py 46-50, 75), or the
\* CLI pipeline up to setup_browser (main.py 136-140).
AcqStart(a) ==
  /\ acq.run[a].pc = "idle"
  /\ \E trigger \in Triggers, user_id \in Users :
       /\ MayStart(trigger)
       /\ trigger \notin WebTriggers => user_id = "u1"
       /\ acq' = [acq EXCEPT !.run[a] =
                    [@ EXCEPT !.pc = "setup", !.trigger = trigger, !.user_id = user_id,
                              !.profile = IF trigger \in WebTriggers
                                          THEN GetProfilePath(user_id, acq.cli_profile_exists)
                                          ELSE CLI_PROFILE,
                              !.task = "awaiting"]]
  /\ UNCHANGED <<notAcq, scrape_runs, web_scrape_runs>>

\* XFeedScraper.setup_browser (scraper.py 63-89): launch_persistent_context on
\* the profile directory, which it creates; or it raises.
AcqSetupBrowser(a) ==
  /\ acq.run[a].pc = "setup"
  /\ \/ acq' = [acq EXCEPT !.run[a] = [@ EXCEPT !.pc = "scrape", !.browser = "open"],
                           !.cli_profile_exists = @ \/ acq.run[a].profile = CLI_PROFILE]
     \/ acq' = [acq EXCEPT !.run[a] = [@ EXCEPT !.pc = "finally", !.outcome = "raised"]]
  /\ UNCHANGED <<notAcq, scrape_runs, web_scrape_runs>>

\* Navigation, the session check and scrape_feed (playwright_scraper.py 54-71,
\* main.py 143-147).  Only the web provider checks the session.
AcqScrape(a) ==
  /\ acq.run[a].pc = "scrape"
  /\ \E outcome \in {"returned", "session", "raised"} :
       /\ outcome = "session" => acq.run[a].trigger \in WebTriggers
       /\ acq' = [acq EXCEPT !.run[a] = [@ EXCEPT !.pc = "finally", !.outcome = outcome]]
  /\ UNCHANGED <<notAcq, scrape_runs, web_scrape_runs>>

\* finally: scraper.close() (playwright_scraper.py 72-73, main.py 168-171,
\* scraper.py 588-604).
AcqClose(a) ==
  /\ acq.run[a].pc = "finally"
  /\ acq' = [acq EXCEPT !.run[a] =
               [@ EXCEPT !.pc = "closed",
                         !.browser = IF @ = "open" THEN "closed" ELSE @]]
  /\ UNCHANGED <<notAcq, scrape_runs, web_scrape_runs>>

\* job_timeout (worker.py 45): the worker cancels the job's task while it
\* awaits.  CancelledError is not an Exception, so the handler at
\* pipeline_service.py 141-149 does not run; the thread started by
\* asyncio.to_thread is not interrupted and goes on.
AcqTimeout(a) ==
  /\ acq.run[a].trigger = "job" /\ acq.run[a].task = "awaiting"
  /\ acq' = [acq EXCEPT !.run[a] = [@ EXCEPT !.task = "killed"]]
  /\ UNCHANGED <<notAcq, scrape_runs, web_scrape_runs>>

\* The caller gets the outcome.  Web (pipeline_service.py 52-66, 141-149): a
\* SessionExpiredError is logged at 58 and, raised again, at 146; any other
\* exception is logged at 146.  CLI (main.py 158-166): the failed run is logged.
\* The rows of a batch that was fetched are written by the steps after it.
AcqReturn(a) ==
  /\ acq.run[a].pc = "closed" /\ acq.run[a].task = "awaiting"
  /\ acq' = [acq EXCEPT !.run[a] = [@ EXCEPT !.task = "ended"]]
  /\ LET run == acq.run[a]
         web == run.trigger \in WebTriggers
         session == <<"error:", "session">>
     IN  /\ web_scrape_runs' =
              IF web /\ run.outcome = "session"
              THEN LogScrapeRun(LogScrapeRun(web_scrape_runs, a, run.user_id, 0, 0, session),
                                a, run.user_id, 0, 0, session)
              ELSE IF web /\ run.outcome = "raised"
              THEN LogScrapeRun(web_scrape_runs, a, run.user_id, 0, 0, <<"error:", "fetch">>)
              ELSE web_scrape_runs
         /\ scrape_runs' =
              IF ~web /\ run.outcome = "raised"
              THEN Append(scrape_runs, CliRunRow(0, 0, "failed"))
              ELSE scrape_runs
  /\ UNCHANGED notAcq

\* The next job, request, interval or click.
AcqAgain(a) ==
  /\ acq.run[a].pc = "closed" /\ acq.run[a].task \in {"ended", "killed"}
  /\ Len(web_scrape_runs) + Len(scrape_runs) < MaxRunRows
  /\ acq' = [acq EXCEPT !.run[a] = AcqRunIdle]
  /\ UNCHANGED <<notAcq, scrape_runs, web_scrape_runs>>

ProfileInit ==
  /\ eng = EngIdle
  /\ sc = ScIdle
  /\ front = FrontIdle("none")
  /\ tweets_tbl = <<>> /\ scrape_runs = <<>>
  /\ web_tweets = <<>> /\ web_scrape_runs = <<>> /\ briefings = <<>>
  /\ runs = [r \in RunIds |-> RunIdle]
  /\ ing = IngIdle
  /\ acq \in {AcqIdle, [AcqIdle EXCEPT !.cli_profile_exists = TRUE]}
  /\ auth = AuthIdle /\ sched = SchedIdle
  /\ now = 1

ProfileNext ==
  \E a \in AcqIds :
    \/ AcqStart(a) \/ AcqSetupBrowser(a) \/ AcqScrape(a) \/ AcqClose(a)
    \/ AcqTimeout(a) \/ AcqReturn(a) \/ AcqAgain(a)

SpecProfile == ProfileInit /\ [][ProfileNext]_vars

(***************************************************************************)
(* XFeedScraper._extract_author_info (scraper.py 399-423)                  *)
(***************************************************************************)
\* The largest number of links "a[href^='/'][role='link']" of an article.
MaxLinks == 3

\* An href is the sequence of its parts: "/alice" is <<"/", "alice">>.  The
\* selector only matches hrefs that start with "/".
AuthorHrefs ==
  { <<"/", "alice">>, <<"/", "bob">>, <<"/", "home">>,
    <<"/", "alice", "/", "status", "/", "1">>, <<"/", "i/", "flow">> }

\* excluded_prefixes (scraper.py 403-405).
excluded_prefixes == {"search", "explore", "home", "notifications", "messages", "i/"}

\* "/" in href[1:] (scraper.py 409).
SlashInRest(href) == \E i \in 2..Len(href) : href[i] \in {"/", "i/"}

\* handle.startswith(excluded_prefixes) (scraper.py 411).
StartsWithExcluded(handle) == handle # <<>> /\ handle[1] \in excluded_prefixes

\* The loop body's test for a profile link (scraper.py 408-411).
IsUserLink(href) ==
  /\ href # <<>> /\ href[1] = "/" /\ ~SlashInRest(href)
  /\ ~StartsWithExcluded(Tail(href))

\* The loop of scraper.py 407-421 from link i on: the first profile link is
\* handled and the loop breaks (421).
RECURSIVE AuthorLoop(_, _, _)
AuthorLoop(user_links, i, tweet_data) ==
  IF i > Len(user_links) THEN tweet_data
  ELSE IF ~IsUserLink(user_links[i]) THEN AuthorLoop(user_links, i + 1, tweet_data)
  ELSE LET handle == Tail(user_links[i])
       IN  IF tweet_data.author_handle = NoText
           THEN [tweet_data EXCEPT !.author_handle = handle]
           ELSE IF tweet_data.is_retweet /\ tweet_data.original_author = NoText
           THEN [tweet_data EXCEPT !.original_author = tweet_data.author_handle,
                                   !.author_handle = handle]
           ELSE tweet_data

\* _extract_author_info on the fresh tweet_data of _parse_tweet (scraper.py
\* 340-354, 369): author_handle and original_author are None at the call.
ExtractAuthorInfo(user_links, is_retweet) ==
  AuthorLoop(user_links, 1,
             [is_retweet |-> is_retweet, author_handle |-> NoText, original_author |-> NoText])

ExtractAuthorInfoCall ==
  /\ auth.pc = "call"
  /\ LET tweet_data == ExtractAuthorInfo(auth.user_links, auth.is_retweet)
     IN  auth' = [auth EXCEPT !.pc = "done", !.author_handle = tweet_data.author_handle,
                              !.original_author = tweet_data.original_author]
  /\ UNCHANGED <<eng, acq, sched, sc, front, cliTables, webTables, runs, ing, now>>

AuthorInit ==
  /\ eng = EngIdle
  /\ sc = ScIdle
  /\ front = FrontIdle("none")
  /\ tweets_tbl = <<>> /\ scrape_runs = <<>>
  /\ web_tweets = <<>> /\ web_scrape_runs = <<>> /\ briefings = <<>>
  /\ runs = [r \in RunIds |-> RunIdle]
  /\ ing = IngIdle
  /\ acq = AcqIdle /\ sched = SchedIdle
  /\ auth \in [pc : {"call"}, user_links : SeqsUpTo(AuthorHrefs, MaxLinks),
               is_retweet : BOOLEAN, author_handle : {NoText}, original_author : {NoText}]
  /\ now = 1

AuthorNext == ExtractAuthorInfoCall

SpecAuthor == AuthorInit /\ [][AuthorNext]_vars

(***************************************************************************)
(* The CLI scheduler: run_scheduler (src/src/scheduler.py 45-103) with its *)
(* loop thread (66-74) and the main thread in tray or console mode         *)
(***************************************************************************)
\* Bounds of the scheduler model: the longest interval in clock ticks and the
\* most runs the loop and the tray menu start.
MaxInterval == 2
MaxSchedRuns == 2

notSched == <<eng, acq, auth, sc, front, cliTables, webTables, runs, ing, now>>

\* The main thread is inside run_scheduler or has returned from it; the
\* process has not ended.
SchedAlive == sched.main \in {"tray", "console", "joining", "returned"}

\* threading.Thread(target=_scheduler_loop, daemon=True).start() (76-77), then
\* the tray icon (79-87) or, when pystray is missing or fails, the console
\* loop (88-97).
SchedStart ==
  /\ sched.main = "idle"
  /\ \E interval \in 1..MaxInterval : \E main \in {"tray", "console"} :
       sched' = [sched EXCEPT !.main = main, !.interval = interval, !.loop = "while"]
  /\ UNCHANGED notSched

\* while not stop_event.is_set() (67), then stop_event.wait(interval) begins (68).
SchedWhile ==
  /\ SchedAlive /\ sched.loop = "while"
  /\ sched' = IF sched.stop_event THEN [sched EXCEPT !.loop = "exited"]
              ELSE [sched EXCEPT !.loop = "wait", !.waited = 0]
  /\ UNCHANGED notSched

\* One tick of the interval passes while the loop waits.
SchedTick ==
  /\ SchedAlive /\ sched.loop = "wait" /\ ~sched.stop_event /\ sched.waited < sched.interval
  /\ sched' = [sched EXCEPT !.waited = sched.waited + 1]
  /\ UNCHANGED notSched

\* stop_event.wait(interval) returns (68): the interval is over or the event
\* was set.
SchedWake ==
  /\ SchedAlive /\ sched.loop = "wait"
  /\ sched.stop_event \/ sched.waited = sched.interval
  /\ sched' = [sched EXCEPT !.loop = "if"]
  /\ UNCHANGED notSched

\* if not stop_event.is_set() (69)
SchedIf ==
  /\ SchedAlive /\ sched.loop = "if"
  /\ sched' = [sched EXCEPT !.loop = IF sched.stop_event THEN "while" ELSE "call"]
  /\ UNCHANGED notSched

\* logger.info and the call of pipeline_func (70-72).
SchedCall ==
  /\ SchedAlive /\ sched.loop = "call" /\ sched.runs < MaxSchedRuns
  /\ sched' = [sched EXCEPT !.loop = "running", !.runs = sched.runs + 1]
  /\ UNCHANGED notSched

\* pipeline_func returns, or raises an Exception that is logged (73-74): the
\* CLI pipeline fails with typer.Exit, a RuntimeError.
SchedRunEnd ==
  /\ SchedAlive /\ sched.loop = "running"
  /\ \E raised \in BOOLEAN :
       sched' = [sched EXCEPT !.loop = "while",
                              !.failed = IF raised THEN sched.failed + 1 ELSE sched.failed]
  /\ UNCHANGED notSched

\* "Run Now" of the tray menu (127-128): pipeline_func in a thread of its own.
SchedRunNow ==
  /\ sched.main = "tray" /\ sched.manual < MaxSchedRuns
  /\ sched' = [sched EXCEPT !.manual = sched.manual + 1]
  /\ UNCHANGED notSched

\* "Quit" of the tray menu (130-132): stop_event.set(), icon.stop(); icon.run
\* returns and run_scheduler returns at 87.
SchedQuit ==
  /\ sched.main = "tray"
  /\ sched' = [sched EXCEPT !.stop_event = TRUE, !.main = "returned"]
  /\ UNCHANGED notSched

\* Ctrl+C in console mode (95-101): the finally clause sets the event.
SchedInterrupt ==
  /\ sched.main = "console"
  /\ sched' = [sched EXCEPT !.stop_event = TRUE, !.main = "joining"]
  /\ UNCHANGED notSched

\* scheduler_thread.join(timeout=5) (102): over when the loop has exited or
\* after five seconds.
SchedJoin ==
  /\ sched.main = "joining"
  /\ sched' = [sched EXCEPT !.main = "returned"]
  /\ UNCHANGED notSched

\* The command returns (main.py 218-223) and the process ends; the loop is a
\* daemon thread and ends with it.
SchedProcessExit ==
  /\ sched.main = "returned"
  /\ sched' = [sched EXCEPT !.main = "exited",
                            !.loop = IF sched.loop = "exited" THEN "exited" ELSE "killed"]
  /\ UNCHANGED notSched

SchedInit == IngestInit /\ front = FrontIdle("cli")

SchedNext ==
  \/ SchedStart \/ SchedWhile \/ SchedTick \/ SchedWake \/ SchedIf \/ SchedCall \/ SchedRunEnd
  \/ SchedRunNow \/ SchedQuit \/ SchedInterrupt \/ SchedJoin \/ SchedProcessExit

SpecScheduler == SchedInit /\ [][SchedNext]_vars

(***************************************************************************)
(* Claims about the engagement parser (SpecEngagement)                     *)
(***************************************************************************)
RECURSIVE Pow10(_)
Pow10(n) == IF n = 0 THEN 1 ELSE 10 * Pow10(n - 1)

\* The position of the first "." of a text, 0 when it has none.
RECURSIVE DotAt(_, _)
DotAt(t, i) == IF i > Len(t) THEN 0 ELSE IF t[i] = "." THEN i ELSE DotAt(t, i + 1)

\* The count a compact text denotes when the decimal point keeps its place
\* value: digits, optionally "." and digits, optionally a K or M suffix; NoCount
\* for every other text and for a value that is no whole number.
DenotedCount(text) ==
  LET up == Upper(Strip(text))
      multiplier == IF EndsWith(up, "K") THEN 1000 ELSE IF EndsWith(up, "M") THEN 1000000 ELSE 1
      body == IF EndsWith(up, "K") \/ EndsWith(up, "M") THEN DropLast(up) ELSE up
      dot == DotAt(body, 1)
      whole == IF dot = 0 THEN body ELSE SubSeq(body, 1, dot - 1)
      frac == IF dot = 0 THEN <<>> ELSE SubSeq(body, dot + 1, Len(body))
  IN  IF ~IsDigit(whole) \/ (dot # 0 /\ ~IsDigit(frac)) THEN NoCount
      ELSE IF (ToInt(frac) * multiplier) % Pow10(Len(frac)) # 0 THEN NoCount
      ELSE ToInt(whole) * multiplier + (ToInt(frac) * multiplier) \div Pow10(Len(frac))

\* The call fell back to the span text (no number in the aria-label).
UsedSpanFallback ==
  /\ eng.pc = "done" /\ eng.button.present
  /\ eng.button.aria_label \in PlainLabels /\ eng.button.span # NoText

\* C6: the fallback text is parsed with K = x1,000 and M = x1,000,000, a decimal
\* point keeping its place value ("1.2K" is 1200, "3M" is 3000000, "42" is 42),
\* and an unparseable text gives None.
C6_CompactCountKeepsPlaceValue ==
  UsedSpanFallback =>
    /\ (DenotedCount(eng.button.span) # NoCount => eng.result = DenotedCount(eng.button.span))
    /\ (~IsDigit(Remove(Remove(eng.button.span, "."), ",")) /\ DenotedCount(eng.button.span) = NoCount
          => eng.result = NoCount)
    /\ (eng.button.span = <<"1", ".", "2", "K">> => eng.result = 1200)
    /\ (eng.button.span = <<"3", "M">> => eng.result = 3000000)
    /\ (eng.button.span = <<"4", "2">> => eng.result = 42)

(***************************************************************************)
(* Claims about acquisition (SpecAcquire)                                  *)
(***************************************************************************)
\* C3: as soon as three consecutive newly seen items are known to the oracle,
\* scrape_feed has returned the records collected so far: the counter never
\* stands at the threshold while the loop is still running, never passes it, and
\* the articles of the pass after the third known one stay unprocessed.
C3_StopsAtThirdKnown ==
  /\ sc.consecutive_known <= MAX_CONSECUTIVE_KNOWN
  /\ sc.consecutive_known >= MAX_CONSECUTIVE_KNOWN =>
       /\ sc.pc = "returned" /\ sc.reason = "known" /\ sc.stop_on_known
       /\ sc.tweets = <<>> /\ sc.idx <= sc.pass_len
       /\ \A i \in 1..Len(sc.result) : front.pc = "scraping" => ~KnownChecker(sc.result[i].id)
  /\ sc.pc = "returned" /\ sc.reason = "known" => sc.consecutive_known = MAX_CONSECUTIVE_KNOWN

\* The third known item arrived with two more articles of the pass behind it and
\* a record already collected.
C3_Witness ==
  /\ sc.pc = "returned" /\ sc.reason = "known"
  /\ sc.pass_len - sc.idx >= 2
  /\ Len(sc.result) >= 1

\* C4: the batch never holds more than max_tweets records, the loop never takes
\* more than max_tweets * 2 scroll steps, and on a feed where every pass brings
\* a new record the loop ends with exactly max_tweets records.
C4_BoundedBatchAndScrolls ==
  /\ Len(sc.tweets) <= sc.max_tweets
  /\ Len(sc.result) <= sc.max_tweets
  /\ sc.scroll_count <= max_scrolls
  /\ sc.pc = "returned" /\ sc.reason = "loop_end" /\ sc.productive =>
       Len(sc.result) = sc.max_tweets

C4_Witness ==
  /\ sc.pc = "returned" /\ sc.reason = "loop_end" /\ sc.productive
  /\ sc.max_tweets = MaxTweets /\ Len(sc.result) = MaxTweets
  /\ sc.scroll_count >= 1

\* C5: an article whose id does not resolve is parsed to None after the id
\* extraction alone, no record of a batch lacks its id, and no stored row has a
\* missing or empty id.
C5_NoIdNoRecord ==
  /\ sc.pc = "for" /\ sc.idx > 0 /\ ~Truthy(ExtractTweetId(sc.article)) =>
       sc.parsed = NoTweet /\ sc.steps = <<"id">>
  /\ \A i \in 1..Len(sc.tweets) : Truthy(sc.tweets[i].id)
  /\ \A i \in 1..Len(sc.result) : Truthy(sc.result[i].id)
  /\ \A i \in 1..Len(tweets_tbl) : Truthy(tweets_tbl[i].id)
  /\ \A i \in 1..Len(web_tweets) : Truthy(web_tweets[i].tweet_id)

\* An article without id was parsed in a pass that goes on.
C5_Witness ==
  /\ sc.pc = "for" /\ sc.idx > 0 /\ sc.idx < sc.pass_len
  /\ ~Truthy(ExtractTweetId(sc.article))
  /\ sc.article.status_links # <<>>

(***************************************************************************)
(* Claims about the store operations (SpecIngest)                          *)
(***************************************************************************)
\* C1: a call of ingest that repeats the call before it (same tenant, same
\* batch, nothing in between) returns new_count = 0 and leaves the tenant's
\* row count as it was.
C1_SecondIngestAddsNothing ==
  ing.repeat =>
    /\ ~ing.raised
    /\ ing.returned = 0
    /\ IF ing.op = "add_tweets" THEN Len(tweets_tbl) = ing.rows_before
       ELSE RowsOf(web_tweets, ing.owner) = ing.rows_before

\* The rows of tbl that are not among the n most recently stored, when the
\* storage times tell them apart: row i is one of them when at least n rows are
\* more recent.
NewerThan(tbl, i) == Cardinality({j \in 1..Len(tbl) : tbl[j].scraped_at > tbl[i].scraped_at})

\* C7: cleanup_old_tweets(keep_count) on a table of total rows deletes
\* total - keep_count rows when total > keep_count, leaves the keep_count most
\* recently stored and returns the number deleted; otherwise it deletes nothing
\* and returns 0; rows sharing a scraped_at included.
C7_TrimKeepsExactlyKeepCount ==
  ing.op = "cleanup_old_tweets" =>
    LET total == Len(ing.before)
    IN  IF total > ing.keep_count
        THEN /\ ing.returned = total - ing.keep_count
             /\ Len(tweets_tbl) = ing.keep_count
             /\ \A i \in 1..Len(tweets_tbl) : NewerThan(ing.before, CHOOSE j \in 1..total :
                                                   ing.before[j] = tweets_tbl[i]) < ing.keep_count
        ELSE ing.returned = 0 /\ tweets_tbl = ing.before

(***************************************************************************)
(* Claims about the web orchestrator (Spec)                                *)
(***************************************************************************)
\* C2: no two stored rows share (tweet_id, user_id), whatever the interleaving
\* of the runs and whatever ids repeat inside a batch.
C2_UniquePerTenant ==
  /\ \A i \in 1..Len(web_tweets) : \A j \in 1..Len(web_tweets) :
       i # j => ~(web_tweets[i].tweet_id = web_tweets[j].tweet_id
                  /\ web_tweets[i].user_id = web_tweets[j].user_id)
  /\ \A i \in 1..Len(tweets_tbl) : \A j \in 1..Len(tweets_tbl) :
       i # j => tweets_tbl[i].id # tweets_tbl[j].id

\* Two runs of one tenant added a row for the same id: one commit stored it, the
\* other was refused.
C2_Witness ==
  \E r1 \in RunIds : \E r2 \in RunIds \ {r1} :
    /\ runs[r1].user_id = runs[r2].user_id
    /\ runs[r1].raised = "commit" /\ runs[r2].pc = "log"
    /\ \E i \in 1..Len(runs[r1].pending) : \E j \in 1..Len(runs[r2].pending) :
         /\ runs[r1].pending[i] = runs[r2].pending[j]
         /\ ViolatesUnique(web_tweets, runs[r1].pending[i])

RunRecords(r) == {i \in 1..Len(web_scrape_runs) : web_scrape_runs[i].run = r}

\* C8: an execution of the pipeline never has more than one run record, and has
\* exactly one when it is over, whatever its outcome.
C8_ExactlyOneRunRecord ==
  \A r \in RunIds :
    /\ Cardinality(RunRecords(r)) <= 1
    /\ runs[r].pc = "done" => Cardinality(RunRecords(r)) = 1

\* C9: when the summarizer has raised, the run is recorded with the status
\* "failed: summary_error: <reason>" and has no briefing.
C9_SummaryErrorStatus ==
  \A r \in RunIds :
    runs[r].summary = "raised" =>
      /\ \E i \in RunRecords(r) :
           LET status == web_scrape_runs[i].status
           IN  /\ Len(status) >= 2
               /\ status[1] = "failed:" /\ status[2] = "summary_error:"
               /\ \E reason \in Reasons : \E n \in 0..Len(reason) :
                    SubSeq(status, 3, Len(status)) = SubSeq(reason, 1, n)
      /\ \A i \in 1..Len(briefings) : briefings[i].run # r

Distinct(rows) == \A i \in 1..Len(rows) : \A j \in 1..Len(rows) : i # j => rows[i] # rows[j]

\* C10: a run whose batch holds n >= 1 records not yet stored for the tenant
\* (and any number already stored) stores those n rows, reports new_count = n
\* and goes on to the summarizer.
C10_NewRecordsStoredThenSummarized ==
  \A r \in RunIds :
    LET run == runs[r]
        n == Len(run.pending)
    IN  n >= 1 /\ Distinct(run.pending) /\ run.pc # "commit" =>
          /\ run.raised # "commit"
          /\ run.new_count = n
          /\ \A i \in 1..n : ViolatesUnique(web_tweets, run.pending[i])
          /\ run.pc = "done" /\ run.raised = "none" => run.summary \in {"returned", "raised"}

(***************************************************************************)
(* Claims about browser profiles and acquisition runs (SpecProfile)        *)
(***************************************************************************)
\* A run is in flight from the start of the fetch until its browser code has
\* left the finally block.
InFlight(a) == acq.run[a].pc \in {"setup", "scrape", "finally"}

\* C11: no two acquisition runs are in flight at the same time against the
\* same browser profile directory, whatever started them and whichever tenants
\* they run for.
C11_OneRunPerProfile ==
  \A a, b \in AcqIds :
    (a # b /\ InFlight(a) /\ InFlight(b)) => acq.run[a].profile # acq.run[b].profile

\* The run records of acquisition run a that name a failure.
FailureRecords(a) ==
  {i \in 1..Len(web_scrape_runs) :
     web_scrape_runs[i].run = a /\ web_scrape_runs[i].status[1] = "error:"}

\* C15: a run that the worker pool killed at the job timeout is recorded as
\* failed: after the kill a run record with a failure status exists for it.
C15_KilledRunIsRecorded ==
  \A a \in AcqIds : acq.run[a].task = "killed" => FailureRecords(a) # {}

\* C16: once an acquisition run has ended (normal return, invalid session,
\* exception, or kill at the job timeout) no browser of that run is still open
\* on the profile directory.
C16_BrowserClosedWhenRunEnded ==
  \A a \in AcqIds : acq.run[a].task \in {"ended", "killed"} => acq.run[a].browser # "open"

(***************************************************************************)
(* Claims about author resolution (SpecAuthor)                             *)
(***************************************************************************)
\* The handles of the profile links of an article, in document order.
ProfileHandles(user_links) ==
  LET links == SelectSeq(user_links, IsUserLink)
  IN  [i \in 1..Len(links) |-> Tail(links[i])]

\* The first handle of hs that differs from hs[1], NoText when there is none.
SecondDistinct(hs) ==
  LET later == {i \in 1..Len(hs) : hs[i] # hs[1]}
  IN  IF later = {} THEN NoText
      ELSE hs[CHOOSE i \in later : \A j \in later : i <= j]

\* C20: the first non-navigational profile link is the primary author; when
\* the item is a repost and a second, distinct profile link exists, the first
\* link's handle is original_author and the second link's handle is
\* author_handle.
C20_RepostAuthors ==
  auth.pc = "done" =>
    LET hs == ProfileHandles(auth.user_links)
    IN  IF hs = <<>>
        THEN auth.author_handle = NoText /\ auth.original_author = NoText
        ELSE IF auth.is_retweet /\ SecondDistinct(hs) # NoText
        THEN auth.original_author = hs[1] /\ auth.author_handle = SecondDistinct(hs)
        ELSE auth.author_handle = hs[1] /\ auth.original_author = NoText

(***************************************************************************)
(* Claims about failing items and the known-item counter (SpecAcquire)     *)
(***************************************************************************)
\* The records scrape_feed holds: its list while it runs, its result after.
Collected(s) == IF s.pc = "returned" THEN s.result ELSE s.tweets

IsPrefix(s, t) == Len(s) <= Len(t) /\ SubSeq(t, 1, Len(s)) = s

\* C17: extraction never raises: an article whose DOM query fails gives a
\* partial record or no record, and the loop goes on to the remaining
\* articles of the pass with the records collected so far kept.
C17_BadItemNeverAbortsBatch ==
  [][(sc.pc = "for" /\ sc'.idx = sc.idx + 1 /\ sc'.article.raises # "none") =>
       /\ sc'.reason # "parse_error"
       /\ sc'.pc = "for" \/ (sc'.pc = "returned" /\ sc'.reason = "known")
       /\ sc'.pc = "for" => sc'.pass_len = sc.pass_len
       /\ IsPrefix(Collected(sc), Collected(sc'))
       /\ sc'.article.raises \in Unguarded \cup {"id"} => sc'.parsed = NoTweet
       /\ sc'.article.raises = "engagement" =>
            sc'.parsed = [id |-> ExtractTweetId(sc'.article), likes |-> NoCount]]_vars

\* An article whose extraction failed has been passed over with a record in
\* hand and articles of the pass still to come.
C17_Witness ==
  /\ sc.pc = "for" /\ sc.article.raises \in Unguarded /\ sc.parsed = NoTweet
  /\ sc.tweets # <<>> /\ sc.idx < sc.pass_len

\* C19: every new record appended resets the consecutive-known counter to 0;
\* the counter only grows by one, on a known item that is not appended; and
\* the early stop happens only with the counter at 3.  So the stop needs a run
\* of 3 known items with no new record between them.
C19_NewRecordResetsCounter ==
  [][sc.pc = "for" =>
       /\ Len(Collected(sc')) > Len(Collected(sc)) => sc'.consecutive_known = 0
       /\ sc'.consecutive_known > sc.consecutive_known =>
            /\ sc'.consecutive_known = sc.consecutive_known + 1
            /\ Collected(sc') = Collected(sc)
       /\ (sc'.pc = "returned" /\ sc'.reason = "known") =>
            /\ sc'.consecutive_known = MAX_CONSECUTIVE_KNOWN
            /\ sc.consecutive_known = MAX_CONSECUTIVE_KNOWN - 1]_vars

\* A known item has been counted and a new record appended after it.
C19_Witness ==
  /\ sc.pc = "for" /\ sc.stop_on_known /\ sc.consecutive_known = 0
  /\ sc.tweets # <<>> /\ sc.parsed = sc.tweets[Len(sc.tweets)]
  /\ \E id \in sc.seen_ids : KnownChecker(id)

(***************************************************************************)
(* Claims about tenant isolation of the web ingest (SpecIngest)            *)
(***************************************************************************)
\* The rows of a table that belong to other tenants than user_id, in order.
RowsOfOthers(tbl, user_id) ==
  LET NotOwner(row) == row.user_id # user_id
  IN  SelectSeq(tbl, NotOwner)

\* The ids stored for user_id in a table.
IdsOf(tbl, user_id) == {tbl[i].tweet_id : i \in {j \in 1..Len(tbl) : tbl[j].user_id = user_id}}

\* C18: _store_tweets_batch(owner, batch) reads and changes only the owner's
\* rows: the rows of every other tenant are as before, every row it adds is
\* the owner's, and an id is new for the owner exactly when the owner did not
\* have it, whether or not another tenant has it.
C18_IngestTouchesOnlyOwner ==
  ing.op = "_store_tweets_batch" =>
    /\ RowsOfOthers(web_tweets, ing.owner) = RowsOfOthers(ing.before, ing.owner)
    /\ IsPrefix(ing.before, web_tweets)
    /\ \A i \in Len(ing.before) + 1 .. Len(web_tweets) : web_tweets[i].user_id = ing.owner
    /\ ~ing.raised =>
         /\ BatchIds(ing.batch) \subseteq IdsOf(web_tweets, ing.owner)
         /\ ing.returned = Len(web_tweets) - Len(ing.before)
         /\ ing.returned >= Cardinality(BatchIds(ing.batch) \ IdsOf(ing.before, ing.owner))

\* An id another tenant already had has been stored for the owner and counted.
C18_Witness ==
  /\ ing.op = "_store_tweets_batch" /\ ~ing.raised /\ ing.returned >= 1
  /\ \E other \in Users \ {ing.owner} :
       \E id \in BatchIds(ing.batch) :
         /\ id \in IdsOf(ing.before, other) /\ id \notin IdsOf(ing.before, ing.owner)
         /\ id \in IdsOf(web_tweets, ing.owner)

(***************************************************************************)
(* Claims about one job: pipeline, then delivery (SpecJob)                 *)
(***************************************************************************)
\* The stages of a run in their order.
Stages == <<"fetch", "store", "summarize", "briefing", "deliver">>

Started(run, stage) == \E i \in 1..Len(run.stages) : run.stages[i] = stage

\* The briefing rows of run r.
BriefingsOf(r) == {i \in 1..Len(briefings) : briefings[i].run = r}

\* C12: the stages of a run start in order, each after the one before it has
\* finished: storing with the batch the fetch returned, summarizing after the
\* stored rows are committed and logged, delivery after the briefing row is
\* committed; and a run that has delivered went through every stage.
C12_StagesInOrder ==
  \A r \in RunIds :
    LET run == runs[r]
    IN  /\ IsPrefix(run.stages, Stages)
        /\ Started(run, "store") => run.found >= 1
        /\ Started(run, "summarize") =>
             /\ \A i \in 1..Len(run.pending) : ViolatesUnique(web_tweets, run.pending[i])
             /\ \E i \in RunRecords(r) : web_scrape_runs[i].status = <<"completed">>
        /\ Started(run, "deliver") => BriefingsOf(r) # {}
        /\ run.delivery = "returned" => run.stages = Stages

\* A run has gone through all five stages.
C12_Witness ==
  /\ runs["r1"].pc = "done" /\ runs["r1"].delivery = "returned"
  /\ runs["r1"].stages = Stages /\ runs["r1"].new_count >= 1

\* The text a failed channel leaves in delivery_error.
NamesFailure(delivery_error, channel) ==
  \E i \in 1..Len(delivery_error) :
    delivery_error[i] \in {channel \o " delivery failed", channel \o ":"}

\* C13: a channel that returns failure or raises is recorded in the briefing's
\* delivery_error with its delivered flag false and is never raised to the
\* caller; the briefing stays stored and the run stays completed; a delivered
\* flag is true only when that channel's send succeeded.
C13_ChannelFailureIsRecorded ==
  \A r \in RunIds :
    LET run == runs[r]
    IN  run.delivery # "none" =>
          /\ run.delivery # "raised"
          /\ Cardinality(BriefingsOf(r)) = 1
          /\ \A i \in RunRecords(r) : web_scrape_runs[i].status = <<"completed">>
          /\ \A i \in BriefingsOf(r) :
               /\ briefings[i].delivered_email => run.email = "ok"
               /\ briefings[i].delivered_telegram => run.telegram = "ok"
               /\ run.delivery = "returned" =>
                    /\ briefings[i].delivered_email = (run.email = "ok")
                    /\ briefings[i].delivered_telegram = (run.telegram = "ok")
                    /\ run.email \in {"false", "raised"} =>
                         NamesFailure(briefings[i].delivery_error, "Email")
                    /\ run.telegram \in {"false", "raised"} =>
                         NamesFailure(briefings[i].delivery_error, "Telegram")
                    /\ (run.email \in {"off", "ok"} /\ run.telegram \in {"off", "ok"}) =>
                         briefings[i].delivery_error = NoText

\* One channel raised, the other returned failure, and deliver_briefing returned.
C13_Witness ==
  /\ runs["r1"].delivery = "returned"
  /\ runs["r1"].email = "raised" /\ runs["r1"].telegram = "false"
  /\ \E i \in BriefingsOf("r1") :
       /\ ~briefings[i].delivered_email /\ ~briefings[i].delivered_telegram
       /\ briefings[i].delivery_error = <<"Email:", "e", "; ", "Telegram delivery failed">>

(***************************************************************************)
(* Claims about failures of run_user_pipeline (Spec)                       *)
(***************************************************************************)
\* C14: run_user_pipeline never raises to its caller, and a run in which
\* fetching, storing or summarizing failed ends with a run record whose
\* status names the failure.
C14_NeverRaisesAlwaysRecorded ==
  \A r \in RunIds :
    /\ runs[r].pc # "raised"
    /\ (runs[r].pc = "done" /\ runs[r].raised \in {"fetch", "session", "commit"}) =>
         \E i \in RunRecords(r) : web_scrape_runs[i].status = <<"error:", runs[r].raised>>
    /\ runs[r].summary = "raised" =>
         \E i \in RunRecords(r) : web_scrape_runs[i].status[1] = "summary_error:"

(***************************************************************************)
(* Further claims about the acquisition loop (SpecAcquire)                 *)
(***************************************************************************)
\* C21: the sub-extractions are independent: when one of them fails on an
\* article whose id resolved, the record is still returned, with its id and
\* with only the failed field at its default.
C21_SubExtractionsIndependent ==
  (sc.pc = "for" /\ sc.idx >= 1 /\ Truthy(ExtractTweetId(sc.article))
     /\ \E i \in 1..Len(SubExtractions) : SubExtractions[i] = sc.article.raises) =>
    /\ sc.parsed # NoTweet
    /\ sc.parsed.id = ExtractTweetId(sc.article)
    /\ sc.article.raises # "engagement" => sc.parsed.likes = ExtractEngagement(sc.article.like)

(***************************************************************************)
(* Further claims about one job (SpecJob)                                  *)
(***************************************************************************)
\* The run records of run r with the status "completed".
CompletedRecords(r) ==
  {i \in RunRecords(r) : web_scrape_runs[i].status = <<"completed">>}

\* C22: once a non-empty batch has been stored and the run recorded, the
\* summarizer is always invoked, also when every fetched record was already
\* stored (new_count = 0).
C22_StoredThenSummarized ==
  \A r \in RunIds :
    (/\ CompletedRecords(r) # {} /\ runs[r].pc # "summarize"
     /\ runs[r].found >= 1 /\ Cardinality(runs[r].ids) = runs[r].found
     /\ runs[r].ids \subseteq IdsOf(web_tweets, runs[r].user_id)) =>
      runs[r].summary \in {"returned", "raised"}

(***************************************************************************)
(* Further claims about run_user_pipeline (Spec)                           *)
(***************************************************************************)
\* The run records of run r with the status "no_tweets".
NoTweetsRecords(r) ==
  {i \in RunRecords(r) : web_scrape_runs[i].status = <<"no_tweets">>}

\* C23: a fetch that yields no record is recorded as no_tweets and the run
\* stops without storing or summarizing; an invalid session is recorded with
\* another status and never as no_tweets.
C23_NoTweetsAndSessionDistinct ==
  \A r \in RunIds :
    LET run == runs[r]
    IN  /\ NoTweetsRecords(r) # {} =>
             /\ run.pc = "done" /\ run.raised = "none" /\ run.found = 0
             /\ run.stages = <<"fetch">> /\ run.summary = "none" /\ run.pending = <<>>
             /\ RunRecords(r) = NoTweetsRecords(r)
        /\ (run.pc = "done" /\ run.raised = "none" /\ run.stages = <<"fetch">>) =>
             Cardinality(NoTweetsRecords(r)) = 1
        /\ run.raised = "session" =>
             /\ RunRecords(r) # {} /\ NoTweetsRecords(r) = {}
             /\ ~Started(run, "store") /\ run.summary = "none"

\* One run ended on an invalid session, the other on an empty fetch, each with
\* its record.
C23_Witness ==
  /\ runs["r1"].pc = "done" /\ runs["r1"].raised = "session" /\ RunRecords("r1") # {}
  /\ runs["r2"].pc = "done" /\ NoTweetsRecords("r2") # {}

(***************************************************************************)
(* Claims about the end of the acquisition loop (SpecAcquireFair)          *)
(***************************************************************************)
\* C24: acquire always terminates: whatever the feed renders and whatever the
\* oracle answers, the loop takes at most max_tweets * 2 scroll steps and
\* scrape_feed returns a batch.
C24_AcquireTerminates ==
  /\ [](sc.scroll_count <= sc.max_tweets * SCROLL_MULTIPLIER)
  /\ (sc.pc \in {"navigate", "while", "for"}) ~> (sc.pc = "returned")

\* The scroll budget was used up on a feed that gave no record.
C24_Witness ==
  /\ sc.pc = "returned" /\ sc.reason = "loop_end" /\ sc.result = <<>>
  /\ sc.max_tweets = MaxTweets /\ sc.scroll_count = sc.max_tweets * SCROLL_MULTIPLIER

(***************************************************************************)
(* Further claims about the acquisition loop (SpecAcquire)                 *)
(***************************************************************************)
\* C25: a failed item query or a failed scroll step of one pass counts as a
\* pass without items: the for loop over, the scroll step leads to the next
\* pass with the scroll budget advanced by one and the collected records kept.
C25_FailedStepIsEmptyPass ==
  [][(sc.pc = "for" /\ (sc.idx = sc.pass_len \/ CapReached(sc))) =>
       /\ sc'.pc = "while"
       /\ sc'.scroll_count = sc.scroll_count + 1
       /\ sc'.tweets = sc.tweets]_vars

\* C26: a failure of the browser after its start (first navigation, feed-view
\* selection, scroll step) ends the loop and scrape_feed returns the records
\* collected until then, in the order of their discovery, none lost.
C26_FailureReturnsCollected ==
  [][(sc.pc \in {"navigate", "while", "for"} /\ sc'.pc = "returned" /\ sc'.reason = "error") =>
       sc'.result = sc.tweets]_vars

\* A scroll step failed after a record was collected.
C26_Witness ==
  sc.pc = "returned" /\ sc.reason = "error" /\ Len(sc.result) >= 1 /\ sc.scroll_count >= 1

\* C28: the batch of scrape_feed holds no two records with the same id, also
\* when an article is rendered in several passes, and a record once collected
\* keeps its place: new records are appended behind it.
C28_NoDuplicatesInDiscoveryOrder ==
  [][sc'.pc \in {"while", "for", "returned"} =>
       /\ Distinct([i \in 1..Len(Collected(sc')) |-> Collected(sc')[i].id])
       /\ sc.pc \in {"while", "for"} => IsPrefix(Collected(sc), Collected(sc'))]_vars

\* An article collected in an earlier pass is rendered again after a scroll
\* step and is skipped.
C28_Witness ==
  /\ sc.pc = "for" /\ sc.scroll_count >= 1 /\ sc.idx >= 1 /\ ~sc.appended
  /\ Len(sc.tweets) >= 1 /\ sc.parsed = sc.tweets[1]

\* C29: the log row of a run reports what the run did: tweets_found is the
\* size of the batch scrape_feed returned, tweets_new the number of rows the
\* run inserted and tweets_new <= tweets_found, on the failure paths too.
C29_RunRecordReportsTheRun ==
  (front.kind = "cli" /\ front.pc = "done" /\ Len(scrape_runs) >= 1) =>
    LET row == scrape_runs[Len(scrape_runs)]
    IN  /\ row.tweets_found = Len(front.batch)
        /\ row.tweets_new = front.new_count
        /\ row.tweets_new <= row.tweets_found

(***************************************************************************)
(* Further claims about the store shared by the tenants (SpecTenants)      *)
(***************************************************************************)
\* C27: ingest is atomic per batch: when _store_tweets_batch raises (the commit
\* met a uniqueness violation), no row of the batch is stored and every row
\* stored before the call is unchanged.
C27_FailedIngestStoresNothing ==
  (ing.op = "_store_tweets_batch" /\ ing.raised) => web_tweets = ing.before

\* The commit failed on the second row of a batch whose first row could have
\* been inserted, on a store that already held rows.
C27_Witness ==
  /\ ing.op = "_store_tweets_batch" /\ ing.raised /\ Len(ing.before) >= 1
  /\ Len(ing.batch) = 2 /\ ing.batch[1].id = ing.batch[2].id
  /\ ~ViolatesUnique(ing.before, [tweet_id |-> ing.batch[1].id, user_id |-> ing.owner])


(***************************************************************************)
(* Claims about the CLI scheduler (SpecScheduler)                          *)
(***************************************************************************)
\* C30: a run that raised never ends the scheduler loop: the loop goes back to
\* its while condition; and once the stop signal is set the loop starts no
\* further run.
C30_NoRunAfterStop ==
  [][/\ (SchedAlive /\ sched.loop = "running" /\ sched'.loop # "running") =>
          sched'.loop \in {"while", "killed"}
     /\ sched.stop_event => sched'.runs = sched.runs]_vars
====
